---- MODULE Spec2Model ----
(***************************************************************************)
(* A model of load_useeio.py: the USEEIO workbook -> Supabase loader.      *)
(*                                                                         *)
(* Spec      the load run (main): one store call per step, against a store *)
(*           whose tables may be missing and whose calls may fail.         *)
(* SpecMelt  the pure sheet-to-records functions (melters), applied to     *)
(*           sheets drawn from bounded sets.                               *)
(* SpecParse the key parser and the index mapping, on keys and tables.     *)
(* SpecYears year detection, on workbooks.                                 *)
(* SpecPair  two load runs whose store calls interleave.                   *)
(***************************************************************************)
EXTENDS Integers, Sequences, FiniteSets, Bags, TLC

\* ------------------------------------------------------------------ bounds
\* load runs started in one behaviour
MaxRuns == 2
\* rows every table loader yields from the workbook
NRows == 3
\* the batch_size argument of insert_in_batches (its default is BATCH_SIZE,
\* 2000 rows; the model runs it with a small one so that a table takes
\* several batches)
BatchSize == 2
\* defects of the environment of one behaviour: store tables that do not
\* exist plus workbook sheets whose loader raises; a sheet without data rows
\* comes alone
MaxFaults == 1
\* data rows and columns (after the first) of a sheet given to a melter,
\* and the cells of its data rows, those of the first column included
MaxSheetRows == 3
MaxSheetCols == 2
MaxCells == 6
\* characters of a composite key given to get_sector_region
MaxKeyLen == 5
\* rows of an indicators sheet
MaxTableRows == 3
\* data rows of a sheet of a workbook given to detect_years_from_xlsx, and
\* the cells of its data rows
MaxBookRows == 2
MaxBookCells == 3

\* ------------------------------------------------------------ the store

\* delete_model_version's table list, in its order
DeleteTables ==
    << "impacts", "c", "rho", "sector_crosswalk", "commodities_meta",
       "indicators", "model_metadata" >>

DataTables ==
    { "impacts", "c", "rho", "sector_crosswalk", "commodities_meta", "indicators" }

AllTables == DataTables \cup { "model_metadata", "ipcc_ar_gwp" }

\* versions a run may load
Versions == { "v1", "v2" }

\* the versions with rows in the store: those, and one loaded earlier
StoredVersions == Versions \cup { "v0" }

\* an absent (None) value, and a present one
None == << >>
Some(x) == << x >>

\* the table loading steps of main, in its order, and the table of each
Steps ==
    << "indicators", "sector_crosswalk", "commodities_meta", "rho", "M", "M_d", "C" >>

StepSet == { Steps[i] : i \in 1..Len(Steps) }

StepTable(s) ==
    CASE s = "indicators" -> "indicators"
      [] s = "sector_crosswalk" -> "sector_crosswalk"
      [] s = "commodities_meta" -> "commodities_meta"
      [] s = "rho" -> "rho"
      [] s = "M" -> "impacts"
      [] s = "M_d" -> "impacts"
      [] s = "C" -> "c"

\* the legacy gas-name suffixes load_ipcc_ar_gwp deletes, in its order
Suffixes == << " a", " b", " c" >>

VARIABLES
    exists,       \* the tables the store has
    wbfail,       \* the steps whose loader raises on this workbook
    data,         \* data table -> bag of rows
    meta,         \* the rows of model_metadata (a set: model_version is unique)
    ipcc,         \* the rows of ipcc_ar_gwp
    pc,           \* position of the run in main
    idx,          \* position inside the current loop (table, suffix, batch offset)
    step,         \* index in Steps of the table being loaded
    version,      \* model_version of the current run
    calls,        \* the store calls of the current run, in order, with their results
    notices,      \* the "Skipped ..." notices of the current run: (phase, table or step)
    runs,         \* runs started
    twice,        \* the current run follows a completed run of the same version
    snap,         \* the rows of that version when the earlier run completed
    everDone,     \* some run has completed
    pendingDeact, \* a row was upserted active and the others not yet deactivated
    wbempty,      \* the sheets of the workbook that hold no data row
    sent,         \* the batches given to insert in the current run, in order
    resumed,      \* the current run follows an aborted run of the same version
    fin,          \* input of the pure function applied (SpecMelt)
    fop,          \* the function applied
    fout,         \* its result
    procs         \* the two concurrent load runs (SpecPair): the position and the
                  \* version of each, whether it swallowed a store error, and
                  \* whether the two overlapped

storeVars == << exists, wbfail, wbempty, data, meta, ipcc >>
runVars == << pc, idx, step, version, calls, notices, runs, twice, snap,
              everDone, pendingDeact, sent, resumed >>
funVars == << fin, fop, fout >>
pairVars == << procs >>
vars == << storeVars, runVars, funVars, pairVars >>


\* ------------------------------------------------------- rows and tables

\* the k-th row the loader of step s yields for version v
Row(s, v, k) == [ model_version |-> v, sheet |-> s, n |-> k ]

StepIndex(s) == CHOOSE i \in 1..Len(Steps) : Steps[i] = s

\* the data rows of the sheet of step s in the workbook of the runs: from 1
\* to NRows, differing from sheet to sheet, or none
SheetRows(s) == IF s \in wbempty THEN 0 ELSE 1 + (StepIndex(s) % NRows)

\* the rows a loader yields, in source order
Records(s, v) == [ k \in 1..SheetRows(s) |-> Row(s, v, k) ]

\* a row left in a table by an earlier load of another workbook
StaleRow(v) == [ model_version |-> v, sheet |-> "old", n |-> 0 ]

RECURSIVE BagOfSeq(_)
BagOfSeq(q) ==
    IF q = << >> THEN EmptyBag ELSE SetToBag({ Head(q) }) (+) BagOfSeq(Tail(q))

\* mutant: the delete has no filter
delete_all(rows, v) == EmptyBag

\* mutant: the delete removes no row
delete_none(rows, v) == rows

\* table.delete().eq("model_version", v)
delete_eq(rows, v) ==
    [ r \in { x \in DOMAIN rows : x.model_version # v } |-> rows[r] ]

\* mutant: the insert replaces the rows of the table by the chunk
insert_replacing(rows, chunk) == BagOfSeq(chunk)

\* table.insert(chunk)
insert(rows, chunk) == rows (+) BagOfSeq(chunk)

\* model_metadata.delete().eq("model_version", v)
meta_delete_eq(rows, v) == { m \in rows : m.model_version # v }

\* model_metadata.upsert(record, on_conflict="model_version")
upsert(rows, record) ==
    { m \in rows : m.model_version # record.model_version } \cup { record }

\* mutant: the update's filter matches no row
update_nothing(rows, v) == rows

\* mutant: the update filters with eq, deactivating the run's own row
update_eq(rows, v) ==
    { IF m.model_version = v THEN [ m EXCEPT !.is_active = FALSE ] ELSE m : m \in rows }

\* model_metadata.update({"is_active": False}).neq("model_version", v)
update_neq(rows, v) ==
    { IF m.model_version # v THEN [ m EXCEPT !.is_active = FALSE ] ELSE m : m \in rows }

\* the years get_config detected in the workbook of the runs
DetectedYears ==
    [ economic_year |-> Some(2017), satellite_year_min |-> Some(2012),
      satellite_year_max |-> Some(2020) ]

\* the record load_model_metadata upserts
MetaRecord(v, years) ==
    [ model_version |-> v,
      economic_year |-> years.economic_year,
      satellite_year_min |-> years.satellite_year_min,
      satellite_year_max |-> years.satellite_year_max,
      is_active |-> TRUE ]

\* a model_metadata row of an earlier load
OldMeta(v, a) ==
    [ model_version |-> v, economic_year |-> None, satellite_year_min |-> None,
      satellite_year_max |-> None, is_active |-> a ]

ActiveRows == { m \in meta : m.is_active }

\* the rows tagged v, in every target table
VersionRows(v) ==
    [ data |-> [ t \in DataTables |-> [ r \in { x \in DOMAIN data[t] : x.model_version = v } |-> data[t][r] ] ],
      meta |-> { m \in meta : m.model_version = v } ]

NoSnap == [ data |-> [ t \in DataTables |-> EmptyBag ], meta |-> {} ]

\* what a store call on table t can answer: "PGRST205" is PostgREST's
\* "table not found"; "ERR" is any other APIError
Results(t) == IF t \in exists THEN { "ok", "ERR" } ELSE { "PGRST205", "ERR" }

\* ------------------------------------------------ the except clauses

\* mutant: the except clause re-raises every APIError
delete_model_version_reraise(code) == "raise"

\* delete_model_version: except APIError
delete_model_version_except(code) == IF code = "PGRST205" THEN "skip" ELSE "raise"

\* mutant: load_model_metadata re-raises every APIError
load_model_metadata_reraise(code) == "raise"

\* load_model_metadata: except APIError
load_model_metadata_except(code) == IF code = "PGRST205" THEN "skip" ELSE "raise"

\* load_ipcc_ar_gwp: except APIError
load_ipcc_ar_gwp_except(code) == IF code = "PGRST205" THEN "skip" ELSE "raise"

\* mutant: commodities_meta is loaded without its try block
main_except_unguarded(s, exc) == IF s = "C" THEN "skip" ELSE "raise"

\* mutant: every table step is guarded like the C step
main_except_skip_all(s, exc) == "skip"

\* main: what happens to an exception raised while step s loads its table;
\* exc is "PGRST205", "ERR" (another APIError) or "ValueError" (the loader
\* raised: the sheet is absent or, for Rho, a cell does not convert)
main_except(s, exc) ==
    CASE s = "commodities_meta" -> IF exc = "PGRST205" THEN "skip" ELSE "raise"
      [] s = "C" -> "skip"
      [] OTHER -> "raise"

\* --------------------------------------------------- positions of main

Pos(p, i, s) == [ pc |-> p, idx |-> i, step |-> s ]

Goto(p) == pc' = p.pc /\ idx' = p.idx /\ step' = p.step

Raised == Pos("aborted", idx, step)

\* main: after get_config, delete_model_version
AfterStart == Pos("delete", 1, 0)

\* mutant: the loop returns after its first table
DeleteNextReturnsEarly(i) == Pos("meta_upsert", 0, 0)

\* delete_model_version's loop; then main calls load_model_metadata
DeleteNext(i) ==
    IF i < Len(DeleteTables) THEN Pos("delete", i + 1, 0) ELSE Pos("meta_upsert", 0, 0)

\* main: after load_model_metadata, load_ipcc_ar_gwp
AfterMeta == Pos("ipcc_delete", 1, 0)

\* load_ipcc_ar_gwp's loop over the suffixes, then its upsert
IpccNext(i) ==
    IF i < Len(Suffixes) THEN Pos("ipcc_delete", i + 1, 0) ELSE Pos("ipcc_upsert", 0, 0)

\* main: after load_ipcc_ar_gwp, the table steps, then "Done."
StepNext(i) ==
    IF i < Len(Steps) THEN Pos("load", 0, i + 1) ELSE Pos("done", 0, i)

\* insert_in_batches: for i in range(0, len(records), batch_size)
BatchNext(i, n, s) ==
    IF i + BatchSize < n THEN Pos("insert", i + BatchSize, s) ELSE StepNext(s)

\* mutant: the slice has no upper end
ChunkToEnd(records, i) == SubSeq(records, i + 1, Len(records))

\* records[i : i + batch_size]
Chunk(records, i) ==
    SubSeq(records, i + 1, IF i + BatchSize < Len(records) THEN i + BatchSize ELSE Len(records))

Log(op, t, r) == calls' = Append(calls, [ op |-> op, table |-> t, res |-> r ])


\* ------------------------------------------------------------ the run

NoFun == [ kind |-> "none" ]

\* no concurrent runs
NoProcs == << >>

Faults ==
    { f \in [ tables : SUBSET AllTables, sheets : SUBSET StepSet, empty : SUBSET StepSet ] :
        Cardinality(f.tables) + Cardinality(f.sheets) + MaxFaults * Cardinality(f.empty)
            <= MaxFaults }

\* a store with rows of earlier loads and any model_metadata rows, no run begun
Init ==
    /\ \E f \in Faults :
         exists = AllTables \ f.tables /\ wbfail = f.sheets /\ wbempty = f.empty
    /\ data = [ t \in DataTables |->
                  IF t \in exists THEN SetToBag({ StaleRow(v) : v \in StoredVersions }) ELSE EmptyBag ]
    /\ \E old \in SUBSET StoredVersions : \E act \in SUBSET old :
         meta = IF "model_metadata" \in exists
                THEN { OldMeta(v, v \in act) : v \in old } ELSE {}
    /\ ipcc = IF "ipcc_ar_gwp" \in exists
              THEN { Suffixes[i] : i \in 1..Len(Suffixes) } ELSE {}
    /\ pc = "idle" /\ idx = 0 /\ step = 0 /\ version = "v1"
    /\ calls = << >> /\ notices = {} /\ runs = 0
    /\ twice = FALSE /\ snap = NoSnap /\ everDone = FALSE /\ pendingDeact = FALSE
    /\ sent = << >> /\ resumed = FALSE
    /\ fin = NoFun /\ fop = "none" /\ fout = NoFun
    /\ procs = NoProcs

\* main begins: get_config, create_client
Start(v) ==
    /\ pc \in { "idle", "done", "aborted" }
    /\ runs < MaxRuns
    /\ runs' = runs + 1
    /\ version' = v
    /\ Goto(AfterStart)
    /\ calls' = << >>
    /\ notices' = {}
    /\ twice' = (pc = "done" /\ version = v)
    /\ snap' = IF pc = "done" /\ version = v THEN VersionRows(v) ELSE NoSnap
    /\ sent' = << >>
    /\ resumed' = (pc = "aborted" /\ version = v)
    /\ UNCHANGED << storeVars, everDone, pendingDeact, funVars, pairVars >>

\* delete_model_version: one table of its loop
Delete ==
    /\ pc = "delete"
    /\ LET t == DeleteTables[idx] IN
       \E r \in Results(t) :
         /\ Log("delete", t, r)
         /\ IF r = "ok"
            THEN /\ data' = IF t \in DataTables
                            THEN [ data EXCEPT ![t] = delete_eq(@, version) ] ELSE data
                 /\ meta' = IF t = "model_metadata" THEN meta_delete_eq(meta, version) ELSE meta
                 /\ notices' = notices
                 /\ Goto(DeleteNext(idx))
            ELSE IF delete_model_version_except(r) = "skip"
            THEN /\ notices' = notices \cup { << "delete", t >> }
                 /\ Goto(DeleteNext(idx))
                 /\ UNCHANGED << data, meta >>
            ELSE /\ Goto(Raised)
                 /\ UNCHANGED << data, meta, notices >>
    /\ UNCHANGED << exists, wbfail, wbempty, ipcc, version, runs, twice, snap, everDone,
                    pendingDeact, sent, resumed, funVars, pairVars >>

\* load_model_metadata: the upsert of the run's row
MetaUpsert ==
    /\ pc = "meta_upsert"
    /\ \E r \in Results("model_metadata") :
         /\ Log("upsert", "model_metadata", r)
         /\ IF r = "ok"
            THEN /\ meta' = upsert(meta, MetaRecord(version, DetectedYears))
                 /\ pendingDeact' = TRUE
                 /\ notices' = notices
                 /\ Goto(Pos("meta_update", 0, 0))
            ELSE IF load_model_metadata_except(r) = "skip"
            THEN /\ notices' = notices \cup { << "load", "model_metadata" >> }
                 /\ Goto(AfterMeta)
                 /\ UNCHANGED << meta, pendingDeact >>
            ELSE /\ Goto(Raised)
                 /\ UNCHANGED << meta, pendingDeact, notices >>
    /\ UNCHANGED << exists, wbfail, wbempty, data, ipcc, version, runs, twice, snap,
                    everDone, sent, resumed, funVars, pairVars >>

\* load_model_metadata: the update that deactivates the other rows
MetaUpdate ==
    /\ pc = "meta_update"
    /\ \E r \in Results("model_metadata") :
         /\ Log("update", "model_metadata", r)
         /\ IF r = "ok"
            THEN /\ meta' = update_neq(meta, version)
                 /\ pendingDeact' = FALSE
                 /\ notices' = notices
                 /\ Goto(AfterMeta)
            ELSE IF load_model_metadata_except(r) = "skip"
            THEN /\ notices' = notices \cup { << "load", "model_metadata" >> }
                 /\ Goto(AfterMeta)
                 /\ UNCHANGED << meta, pendingDeact >>
            ELSE /\ Goto(Raised)
                 /\ UNCHANGED << meta, pendingDeact, notices >>
    /\ UNCHANGED << exists, wbfail, wbempty, data, ipcc, version, runs, twice, snap,
                    everDone, sent, resumed, funVars, pairVars >>

\* load_ipcc_ar_gwp: the delete of the legacy rows of one suffix
IpccDelete ==
    /\ pc = "ipcc_delete"
    /\ \E r \in Results("ipcc_ar_gwp") :
         /\ Log("delete_like", "ipcc_ar_gwp", r)
         /\ IF r = "ok"
            THEN /\ ipcc' = ipcc \ { Suffixes[idx] }
                 /\ notices' = notices
                 /\ Goto(IpccNext(idx))
            ELSE IF load_ipcc_ar_gwp_except(r) = "skip"
            THEN /\ notices' = notices \cup { << "load", "ipcc_ar_gwp" >> }
                 /\ Goto(StepNext(0))
                 /\ UNCHANGED ipcc
            ELSE /\ Goto(Raised)
                 /\ UNCHANGED << ipcc, notices >>
    /\ UNCHANGED << exists, wbfail, wbempty, data, meta, version, runs, twice, snap,
                    everDone, pendingDeact, sent, resumed, funVars, pairVars >>

\* load_ipcc_ar_gwp: the upsert of the reference rows
IpccUpsert ==
    /\ pc = "ipcc_upsert"
    /\ \E r \in Results("ipcc_ar_gwp") :
         /\ Log("upsert", "ipcc_ar_gwp", r)
         /\ IF r = "ok"
            THEN /\ ipcc' = ipcc \cup { "IPCC_AR_GWP_ROWS" }
                 /\ notices' = notices
                 /\ Goto(StepNext(0))
            ELSE IF load_ipcc_ar_gwp_except(r) = "skip"
            THEN /\ notices' = notices \cup { << "load", "ipcc_ar_gwp" >> }
                 /\ Goto(StepNext(0))
                 /\ UNCHANGED ipcc
            ELSE /\ Goto(Raised)
                 /\ UNCHANGED << ipcc, notices >>
    /\ UNCHANGED << exists, wbfail, wbempty, data, meta, version, runs, twice, snap,
                    everDone, pendingDeact, sent, resumed, funVars, pairVars >>

\* main: a table step reads its sheet and computes its records
Load ==
    /\ pc = "load"
    /\ LET s == Steps[step] IN
       IF s \in wbfail
       THEN IF main_except(s, "ValueError") = "skip"
            THEN /\ notices' = notices \cup { << "load", s >> }
                 /\ Goto(StepNext(step))
            ELSE /\ Goto(Raised)
                 /\ notices' = notices
       ELSE /\ notices' = notices
            /\ IF Len(Records(s, version)) = 0
               THEN Goto(StepNext(step))
               ELSE Goto(Pos("insert", 0, step))
    /\ everDone' = (everDone \/ pc' = "done")
    /\ UNCHANGED << storeVars, version, calls, runs, twice, snap, pendingDeact,
                    sent, resumed, funVars, pairVars >>

\* insert_in_batches: one batch
Insert ==
    /\ pc = "insert"
    /\ LET s == Steps[step]
           t == StepTable(s)
           records == Records(s, version)
       IN \E r \in Results(t) :
            /\ Log("insert", t, r)
            /\ sent' = Append(sent, [ step |-> s, table |-> t,
                                      chunk |-> Chunk(records, idx), res |-> r ])
            /\ IF r = "ok"
               THEN /\ data' = [ data EXCEPT ![t] = insert(@, Chunk(records, idx)) ]
                    /\ notices' = notices
                    /\ Goto(BatchNext(idx, Len(records), step))
               ELSE IF main_except(s, r) = "skip"
               THEN /\ notices' = notices \cup { << "load", s >> }
                    /\ Goto(StepNext(step))
                    /\ UNCHANGED data
               ELSE /\ Goto(Raised)
                    /\ UNCHANGED << data, notices >>
    /\ everDone' = (everDone \/ pc' = "done")
    /\ UNCHANGED << exists, wbfail, wbempty, meta, ipcc, version, runs, twice, snap,
                    pendingDeact, resumed, funVars, pairVars >>

Next ==
    \/ \E v \in Versions : Start(v)
    \/ Delete
    \/ MetaUpsert
    \/ MetaUpdate
    \/ IpccDelete
    \/ IpccUpsert
    \/ Load
    \/ Insert

Spec == Init /\ [][Next]_vars

\* ------------------------------------------------ two concurrent runs

\* Two processes run main against one store, each once; a step is one store
\* call (or the reading of one sheet) of one of them. The store has every
\* table and the workbook every sheet; a call succeeds or fails with an
\* APIError other than PGRST205.

Procs == { 1, 2 }

Other(p) == 3 - p

\* process p is between its first store call and its end
Busy(p) == procs.run[p].pc \notin { "idle", "done", "aborted" }

\* process p moves to a position of main
Move(p, pos) ==
    procs' = [ procs EXCEPT !.run[p].pc = pos.pc, !.run[p].idx = pos.idx,
                            !.run[p].step = pos.step ]

\* an exception leaves main
PairRaised == Pos("aborted", 0, 0)

\* a store with the rows of earlier loads, at most one of them active; two
\* processes about to load the same version or two versions
InitPair ==
    /\ exists = AllTables /\ wbfail = {} /\ wbempty = {}
    /\ data = [ t \in DataTables |-> SetToBag({ StaleRow(v) : v \in StoredVersions }) ]
    /\ \E a \in StoredVersions \cup { "none" } :
         meta = { OldMeta(v, v = a) : v \in StoredVersions }
    /\ ipcc = { Suffixes[i] : i \in 1..Len(Suffixes) }
    /\ pc = "idle" /\ idx = 0 /\ step = 0 /\ version = "v1"
    /\ calls = << >> /\ notices = {} /\ runs = 0
    /\ twice = FALSE /\ snap = NoSnap /\ everDone = FALSE /\ pendingDeact = FALSE
    /\ sent = << >> /\ resumed = FALSE
    /\ fin = NoFun /\ fop = "none" /\ fout = NoFun
    /\ \E w \in Versions :
         procs = [ run |-> [ p \in Procs |->
                               [ pc |-> "idle", idx |-> 0, step |-> 0,
                                 version |-> IF p = 1 THEN "v1" ELSE w,
                                 swallowed |-> FALSE ] ],
                   overlapped |-> FALSE ]

\* main begins in process p
PairStart(p) ==
    /\ procs.run[p].pc = "idle"
    /\ procs' = [ procs EXCEPT !.run[p].pc = AfterStart.pc, !.run[p].idx = AfterStart.idx,
                               !.run[p].step = AfterStart.step,
                               !.overlapped = @ \/ Busy(Other(p)) ]
    /\ UNCHANGED << storeVars, runVars, funVars >>

\* delete_model_version in process p: one table of its loop
PairDelete(p) ==
    /\ procs.run[p].pc = "delete"
    /\ LET t == DeleteTables[procs.run[p].idx]
           v == procs.run[p].version
       IN \E r \in Results(t) :
            IF r = "ok"
            THEN /\ data' = IF t \in DataTables
                            THEN [ data EXCEPT ![t] = delete_eq(@, v) ] ELSE data
                 /\ meta' = IF t = "model_metadata" THEN meta_delete_eq(meta, v) ELSE meta
                 /\ Move(p, DeleteNext(procs.run[p].idx))
            ELSE /\ Move(p, IF delete_model_version_except(r) = "skip"
                            THEN DeleteNext(procs.run[p].idx) ELSE PairRaised)
                 /\ UNCHANGED << data, meta >>
    /\ UNCHANGED << exists, wbfail, wbempty, ipcc, runVars, funVars >>

\* load_model_metadata in process p: the upsert
PairMetaUpsert(p) ==
    /\ procs.run[p].pc = "meta_upsert"
    /\ \E r \in Results("model_metadata") :
         IF r = "ok"
         THEN /\ meta' = upsert(meta, MetaRecord(procs.run[p].version, DetectedYears))
              /\ Move(p, Pos("meta_update", 0, 0))
         ELSE /\ Move(p, IF load_model_metadata_except(r) = "skip" THEN AfterMeta ELSE PairRaised)
              /\ UNCHANGED meta
    /\ UNCHANGED << exists, wbfail, wbempty, data, ipcc, runVars, funVars >>

\* load_model_metadata in process p: the update of the other rows
PairMetaUpdate(p) ==
    /\ procs.run[p].pc = "meta_update"
    /\ \E r \in Results("model_metadata") :
         IF r = "ok"
         THEN /\ meta' = update_neq(meta, procs.run[p].version)
              /\ Move(p, AfterMeta)
         ELSE /\ Move(p, IF load_model_metadata_except(r) = "skip" THEN AfterMeta ELSE PairRaised)
              /\ UNCHANGED meta
    /\ UNCHANGED << exists, wbfail, wbempty, data, ipcc, runVars, funVars >>

\* load_ipcc_ar_gwp in process p: the delete of one suffix
PairIpccDelete(p) ==
    /\ procs.run[p].pc = "ipcc_delete"
    /\ \E r \in Results("ipcc_ar_gwp") :
         IF r = "ok"
         THEN /\ ipcc' = ipcc \ { Suffixes[procs.run[p].idx] }
              /\ Move(p, IpccNext(procs.run[p].idx))
         ELSE /\ Move(p, IF load_ipcc_ar_gwp_except(r) = "skip" THEN StepNext(0) ELSE PairRaised)
              /\ UNCHANGED ipcc
    /\ UNCHANGED << exists, wbfail, wbempty, data, meta, runVars, funVars >>

\* load_ipcc_ar_gwp in process p: the upsert
PairIpccUpsert(p) ==
    /\ procs.run[p].pc = "ipcc_upsert"
    /\ \E r \in Results("ipcc_ar_gwp") :
         IF r = "ok"
         THEN /\ ipcc' = ipcc \cup { "IPCC_AR_GWP_ROWS" }
              /\ Move(p, StepNext(0))
         ELSE /\ Move(p, IF load_ipcc_ar_gwp_except(r) = "skip" THEN StepNext(0) ELSE PairRaised)
              /\ UNCHANGED ipcc
    /\ UNCHANGED << exists, wbfail, wbempty, data, meta, runVars, funVars >>

\* main in process p: a table step reads its sheet and computes its records
PairLoad(p) ==
    /\ procs.run[p].pc = "load"
    /\ LET s == Steps[procs.run[p].step] IN
       IF s \in wbfail
       THEN Move(p, IF main_except(s, "ValueError") = "skip"
                    THEN StepNext(procs.run[p].step) ELSE PairRaised)
       ELSE IF Len(Records(s, procs.run[p].version)) = 0
       THEN Move(p, StepNext(procs.run[p].step))
       ELSE Move(p, Pos("insert", 0, procs.run[p].step))
    /\ UNCHANGED << storeVars, runVars, funVars >>

\* insert_in_batches in process p: one batch
PairInsert(p) ==
    /\ procs.run[p].pc = "insert"
    /\ LET s == Steps[procs.run[p].step]
           t == StepTable(s)
           records == Records(s, procs.run[p].version)
       IN \E r \in Results(t) :
            IF r = "ok"
            THEN /\ data' = [ data EXCEPT ![t] = insert(@, Chunk(records, procs.run[p].idx)) ]
                 /\ Move(p, BatchNext(procs.run[p].idx, Len(records), procs.run[p].step))
            ELSE IF main_except(s, r) = "skip"
            THEN /\ procs' = [ procs EXCEPT !.run[p].pc = StepNext(procs.run[p].step).pc,
                                            !.run[p].idx = StepNext(procs.run[p].step).idx,
                                            !.run[p].step = StepNext(procs.run[p].step).step,
                                            !.run[p].swallowed = TRUE ]
                 /\ UNCHANGED data
            ELSE /\ Move(p, PairRaised)
                 /\ UNCHANGED data
    /\ UNCHANGED << exists, wbfail, wbempty, meta, ipcc, runVars, funVars >>

NextPair ==
    \E p \in Procs :
        \/ PairStart(p)
        \/ PairDelete(p)
        \/ PairMetaUpsert(p)
        \/ PairMetaUpdate(p)
        \/ PairIpccDelete(p)
        \/ PairIpccUpsert(p)
        \/ PairLoad(p)
        \/ PairInsert(p)

SpecPair == InitPair /\ [][NextPair]_vars


\* ------------------------------------------------ strings and numbers

\* A string is the sequence of its characters. A float is finite, counted in
\* tenths (35 is 3.5), or infinite, or not a number; the texts of the model
\* carry at most one digit after the point.
Digits == << "0", "1", "2", "3", "4", "5", "6", "7", "8", "9" >>

IsDigit(c) == \E d \in 1..10 : Digits[d] = c

DigitValue(c) == (CHOOSE d \in 1..10 : Digits[d] = c) - 1

Chars(q) == { q[i] : i \in 1..Len(q) }

Range(q) == { q[k] : k \in 1..Len(q) }

\* str.isdigit()
isdigit(q) == q # << >> /\ \A i \in 1..Len(q) : IsDigit(q[i])

\* str.strip()
RECURSIVE lstrip(_)
lstrip(q) == IF q # << >> /\ Head(q) = " " THEN lstrip(Tail(q)) ELSE q

RECURSIVE rstrip(_)
rstrip(q) ==
    IF q # << >> /\ q[Len(q)] = " " THEN rstrip(SubSeq(q, 1, Len(q) - 1)) ELSE q

strip(q) == rstrip(lstrip(q))

\* str.replace(c, "")
RECURSIVE remove(_, _)
remove(q, c) ==
    IF q = << >> THEN << >>
    ELSE IF Head(q) = c THEN remove(Tail(q), c)
    ELSE << Head(q) >> \o remove(Tail(q), c)

\* the position of the last c in q, 0 if there is none
LastIndex(q, c) ==
    IF c \in Chars(q) THEN CHOOSE i \in 1..Len(q) : q[i] = c /\ \A j \in (i + 1)..Len(q) : q[j] # c
    ELSE 0

\* the position of the first c in q, 0 if there is none
FirstIndex(q, c) ==
    IF c \in Chars(q) THEN CHOOSE i \in 1..Len(q) : q[i] = c /\ \A j \in 1..(i - 1) : q[j] # c
    ELSE 0

\* the number a string of digits writes
RECURSIVE Numeral(_)
Numeral(q) ==
    IF q = << >> THEN 0 ELSE 10 * Numeral(SubSeq(q, 1, Len(q) - 1)) + DigitValue(q[Len(q)])

Finite(t) == [ f |-> "fin", t |-> t ]
Inf == [ f |-> "inf", t |-> 0 ]
NaN == [ f |-> "nan", t |-> 0 ]

\* the result of a call: a value, or the exception it raised
Ok(x) == [ exc |-> "", val |-> x ]
Exc(e) == [ exc |-> e, val |-> << >> ]

\* float(text) of an unsigned numeral
float_unsigned(q) ==
    LET dot == FirstIndex(q, ".")
        whole == IF dot = 0 THEN q ELSE SubSeq(q, 1, dot - 1)
        frac == IF dot = 0 THEN << >> ELSE SubSeq(q, dot + 1, Len(q))
    IN IF q = << "i", "n", "f" >> THEN Ok(Inf)
       ELSE IF q = << "n", "a", "n" >> THEN Ok(NaN)
       ELSE IF /\ whole \o frac # << >>
               /\ isdigit(whole \o frac)
               /\ Len(frac) <= 1
       THEN Ok(Finite(10 * Numeral(whole) + Numeral(frac)))
       ELSE Exc("ValueError")

\* float(text)
float_str(text) ==
    LET q == strip(text) IN
    IF q # << >> /\ Head(q) = "-"
    THEN LET x == float_unsigned(Tail(q)) IN
         IF x.exc # "" THEN x ELSE Ok([ x.val EXCEPT !.t = -@ ])
    ELSE float_unsigned(q)

\* the cells of a sheet: blank (pandas reads NaN), a number, a text
Null == [ k |-> "null", t |-> 0, s |-> << >> ]
Num(t) == [ k |-> "num", t |-> t, s |-> << >> ]
Str(q) == [ k |-> "str", t |-> 0, s |-> q ]

\* pd.isna(val)
isna(val) == val.k = "null"

\* float(val) of a cell or label that is not null
float(val) == IF val.k = "num" THEN Ok(Finite(val.t)) ELSE float_str(val.s)

\* int(x) of a float: truncation, which raises on nan and on infinity
int(x) ==
    CASE x.f = "nan" -> Exc("ValueError")
      [] x.f = "inf" -> Exc("OverflowError")
      [] OTHER -> Ok(IF x.t >= 0 THEN x.t \div 10 ELSE -((-x.t) \div 10))

\* int(float(c))
int_float(c) ==
    LET x == float(c) IN IF x.exc # "" THEN x ELSE int(x.val)

\* the digits of a natural number
RECURSIVE DigitsOf(_)
DigitsOf(n) ==
    IF n < 10 THEN << Digits[n + 1] >> ELSE DigitsOf(n \div 10) \o << Digits[(n % 10) + 1] >>

\* str(val) of a cell or label that is not null: a number prints as a float
str(val) ==
    IF val.k = "str" THEN val.s
    ELSE IF val.t >= 0
    THEN DigitsOf(val.t \div 10) \o << "." >> \o DigitsOf(val.t % 10)
    ELSE << "-" >> \o DigitsOf((-val.t) \div 10) \o << "." >> \o DigitsOf((-val.t) % 10)

US == << "U", "S" >>

\* mutant: the key is split on its first "/"
get_sector_region_split_first(s0) ==
    LET s == strip(IF s0 = None THEN << >> ELSE s0)
        cut == FirstIndex(s, "/")
    IN IF "/" \in Chars(s)
       THEN << strip(SubSeq(s, 1, cut - 1)), strip(SubSeq(s, cut + 1, Len(s))) >>
       ELSE << s, US >>

\* get_sector_region(s), s a string or None: (s or "").strip(), then
\* rsplit("/", 1) when it holds a "/"
get_sector_region(s0) ==
    LET s == strip(IF s0 = None THEN << >> ELSE s0)
        cut == LastIndex(s, "/")
    IN IF "/" \in Chars(s)
       THEN << strip(SubSeq(s, 1, cut - 1)), strip(SubSeq(s, cut + 1, Len(s))) >>
       ELSE << s, US >>

\* ------------------------------------------------------- the melters

\* A sheet read with header=0: cols are the labels of the columns after the
\* first, rows the data rows, each with its first cell (label) and the cells
\* under cols.

\* two results in sequence: the first exception raised ends the call
Then(a, b) ==
    IF a.exc # "" THEN a ELSE IF b.exc # "" THEN b ELSE Ok(a.val \o b.val)

\* dict.get(k): the value wrapped, or None
Get(d, k) == IF k \in DOMAIN d THEN Some(d[k]) ELSE None

\* mutant: a blank cell is not skipped but stored as zero
rho_cell_blank_as_zero(mv, sheet, i, j) ==
    LET key == get_sector_region(str(sheet.rows[i].label))
        year == int_float(sheet.cols[j])
        val == sheet.rows[i].cells[j]
    IN IF year.exc \in { "ValueError", "TypeError" } THEN Ok(<< >>)
       ELSE IF year.exc # "" THEN Exc(year.exc)
       ELSE IF ~isna(val) /\ float(val).exc # "" THEN Exc(float(val).exc)
       ELSE Ok(<< [ model_version |-> mv, sector_code |-> key[1], region |-> key[2],
                    year |-> year.val,
                    rho_value |-> IF isna(val) THEN Finite(0) ELSE float(val).val ] >>)

\* load_rho_long: one cell of a row
rho_cell(mv, sheet, i, j) ==
    LET key == get_sector_region(str(sheet.rows[i].label))
        year == int_float(sheet.cols[j])
        val == sheet.rows[i].cells[j]
    IN IF year.exc \in { "ValueError", "TypeError" } THEN Ok(<< >>)
       ELSE IF year.exc # "" THEN Exc(year.exc)
       ELSE IF isna(val) THEN Ok(<< >>)
       ELSE IF float(val).exc # "" THEN Exc(float(val).exc)
       ELSE Ok(<< [ model_version |-> mv, sector_code |-> key[1], region |-> key[2],
                    year |-> year.val, rho_value |-> float(val).val ] >>)

RECURSIVE rho_cols(_, _, _, _)
rho_cols(mv, sheet, i, j) ==
    IF j > Len(sheet.cols) THEN Ok(<< >>)
    ELSE Then(rho_cell(mv, sheet, i, j), rho_cols(mv, sheet, i, j + 1))

RECURSIVE rho_rows(_, _, _)
rho_rows(mv, sheet, i) ==
    IF i > Len(sheet.rows) THEN Ok(<< >>)
    ELSE Then(IF isna(sheet.rows[i].label) THEN Ok(<< >>) ELSE rho_cols(mv, sheet, i, 1),
              rho_rows(mv, sheet, i + 1))

load_rho_long(mv, sheet) == rho_rows(mv, sheet, 1)

\* mutant: no row is skipped
ImpactRowsAll(sheet) == sheet.rows

\* load_impact_long: df.iloc[1:], the rows after the first
ImpactRows(sheet) == Tail(sheet.rows)

\* load_impact_long: one cell of a row
impact_cell(mv, impact_type, code, sheet, row, j) ==
    LET key == get_sector_region(str(sheet.cols[j]))
        val == row.cells[j]
    IN IF isna(val) THEN Ok(<< >>)
       ELSE IF float(val).exc \in { "ValueError", "TypeError" } THEN Ok(<< >>)
       ELSE IF float(val).exc # "" THEN Exc(float(val).exc)
       ELSE Ok(<< [ model_version |-> mv, impact_type |-> impact_type,
                    indicator_code |-> code, sector_code |-> key[1], region |-> key[2],
                    value |-> float(val).val ] >>)

RECURSIVE impact_cols(_, _, _, _, _, _)
impact_cols(mv, impact_type, code, sheet, row, j) ==
    IF j > Len(sheet.cols) THEN Ok(<< >>)
    ELSE Then(impact_cell(mv, impact_type, code, sheet, row, j),
              impact_cols(mv, impact_type, code, sheet, row, j + 1))

\* load_impact_long: enumerate(df.iloc[1:].iterrows()), i counted from 0
RECURSIVE impact_rows(_, _, _, _, _, _)
impact_rows(mv, impact_type, index_to_code, sheet, rows, i) ==
    IF i >= Len(rows) THEN Ok(<< >>)
    ELSE Then(IF Get(index_to_code, i) = None THEN Ok(<< >>)
              ELSE impact_cols(mv, impact_type, index_to_code[i], sheet, rows[i + 1], 1),
              impact_rows(mv, impact_type, index_to_code, sheet, rows, i + 1))

load_impact_long(mv, impact_type, index_to_code, sheet) ==
    IF sheet.rows = << >> THEN Ok(<< >>)
    ELSE impact_rows(mv, impact_type, index_to_code, sheet, ImpactRows(sheet), 0)

\* mutant: the first cell is taken as it stands, not trimmed
c_indicator_untrimmed(index_to_code, row, i) ==
    IF ~isna(row.label)
    THEN LET q == str(row.label) IN
         IF strip(q) # << >> /\ ~isdigit(remove(remove(strip(q), "."), "-"))
         THEN Some(q)
         ELSE Get(index_to_code, i)
    ELSE Get(index_to_code, i)

\* load_c_matrix_long: the indicator code of row i (counted from 0), or None
c_indicator(index_to_code, row, i) ==
    IF ~isna(row.label)
    THEN LET q == strip(str(row.label)) IN
         IF q # << >> /\ ~isdigit(remove(remove(q, "."), "-"))
         THEN Some(q)
         ELSE Get(index_to_code, i)
    ELSE Get(index_to_code, i)

\* load_c_matrix_long: one cell of a row
c_cell(mv, code, sheet, row, j) ==
    LET val == row.cells[j] IN
    IF isna(val) THEN Ok(<< >>)
    ELSE IF float(val).exc \in { "ValueError", "TypeError" } THEN Ok(<< >>)
    ELSE IF float(val).exc # "" THEN Exc(float(val).exc)
    ELSE Ok(<< [ model_version |-> mv, indicator_code |-> code,
                 flow |-> strip(str(sheet.cols[j])), value |-> float(val).val ] >>)

RECURSIVE c_cols(_, _, _, _, _)
c_cols(mv, code, sheet, row, j) ==
    IF j > Len(sheet.cols) THEN Ok(<< >>)
    ELSE Then(c_cell(mv, code, sheet, row, j), c_cols(mv, code, sheet, row, j + 1))

\* load_c_matrix_long: enumerate(df.iterrows()), i counted from 0
RECURSIVE c_rows(_, _, _, _)
c_rows(mv, index_to_code, sheet, i) ==
    IF i >= Len(sheet.rows) THEN Ok(<< >>)
    ELSE LET code == c_indicator(index_to_code, sheet.rows[i + 1], i) IN
         Then(IF code = None THEN Ok(<< >>)
              ELSE c_cols(mv, code[1], sheet, sheet.rows[i + 1], 1),
              c_rows(mv, index_to_code, sheet, i + 1))

load_c_matrix_long(mv, index_to_code, sheet) == c_rows(mv, index_to_code, sheet, 0)

\* ------------------------------------------------- the indicator table

\* A DataFrame of indicators: its columns and its rows, each with its pandas
\* row label, its cell in the "index" column (None without that column) and
\* its cell in the "code" column.

\* main: cols_ind, the columns of the indicators table
cols_ind ==
    { "model_version", "code", "id", "name", "unit", "group", "simple_unit", "simple_name" }

\* main: ind_df[[c for c in cols_ind if c in ind_df.columns]]
project(df) ==
    [ columns |-> df.columns \cap cols_ind,
      rows |-> [ i \in 1..Len(df.rows) |-> [ df.rows[i] EXCEPT !.index = None ] ] ]

RECURSIVE Keep(_, _)
Keep(rows, i) ==
    IF i > Len(rows) THEN << >>
    ELSE (IF isna(rows[i].code) THEN << >> ELSE << rows[i] >>) \o Keep(rows, i + 1)

\* main: ind_df.dropna(subset=["code"]); the rows kept keep their labels
dropna_code(df) == [ df EXCEPT !.rows = Keep(df.rows, 1) ]

\* Series.astype(str) of one cell
astype_str(val) == IF isna(val) THEN << "n", "a", "n" >> ELSE str(val)

\* Series.to_dict() of the items (key, val) of a series: the last of the
\* items with one key stays
to_dict(items) ==
    [ k \in { items[i].key : i \in 1..Len(items) } |->
        items[CHOOSE i \in 1..Len(items) :
                 items[i].key = k /\ \A j \in (i + 1)..Len(items) : items[j].key # k].val ]

\* build_index_to_code
build_index_to_code(indicators_df) ==
    LET rows == indicators_df.rows IN
    IF "index" \in indicators_df.columns
    THEN to_dict([ i \in 1..Len(rows) |->
                     [ key |-> rows[i].index[1], val |-> astype_str(rows[i].code) ] ])
    ELSE to_dict([ i \in 1..Len(rows) |->
                     [ key |-> rows[i].label, val |-> astype_str(rows[i].code) ] ])

\* main: the dict it builds from the indicators sheet it read
main_index_to_code(ind_df) == build_index_to_code(dropna_code(project(ind_df)))

\* ----------------------------------------------------- year detection

\* A workbook: whether pd.ExcelFile opens it, and its sheets in their order,
\* each with its name, whether pd.read_excel reads it, the label of its
\* first column, the labels of the columns after it, and its data rows.

Upper ==
    << "A", "B", "C", "D", "E", "F", "G", "H", "I", "J", "K", "L", "M",
       "N", "O", "P", "Q", "R", "S", "T", "U", "V", "W", "X", "Y", "Z" >>

Lower ==
    << "a", "b", "c", "d", "e", "f", "g", "h", "i", "j", "k", "l", "m",
       "n", "o", "p", "q", "r", "s", "t", "u", "v", "w", "x", "y", "z" >>

\* str.lower()
lower(q) ==
    [ i \in 1..Len(q) |->
        IF \E k \in 1..26 : Upper[k] = q[i]
        THEN Lower[CHOOSE k \in 1..26 : Upper[k] = q[i]] ELSE q[i] ]

SHEET_RHO == << "R", "h", "o" >>

SHEET_DEMANDS == << "d", "e", "m", "a", "n", "d", "s" >>

\* detect_years_from_xlsx: the column names taken for the economic year
year_synonyms ==
    { << "y", "e", "a", "r" >>,
      << "e", "c", "o", "n", "o", "m", "i", "c", " ", "y", "e", "a", "r" >>,
      << "e", "c", "o", "n", "o", "m", "i", "c", "_", "y", "e", "a", "r" >> }

\* next((s for s in xl.sheet_names if s.strip().lower() == name.lower()), None):
\* the position of the first such sheet, 0 for None
find_sheet(xl, name) ==
    LET hits == { i \in 1..Len(xl.sheets) : lower(strip(xl.sheets[i].name)) = lower(name) }
    IN IF hits = {} THEN 0 ELSE CHOOSE i \in hits : \A j \in hits : i <= j

\* pd.read_excel(xlsx_path, sheet_name=name): the position of the sheet with
\* exactly that name, 0 when there is none (read_excel raises ValueError)
read_sheet(xl, name) ==
    LET hits == { i \in 1..Len(xl.sheets) : xl.sheets[i].name = name }
    IN IF hits = {} THEN 0 ELSE CHOOSE i \in hits : \A j \in hits : i <= j

\* the column labels of a sheet, the first included
columns(sheet) == << sheet.first >> \o sheet.cols

\* the cells of column j of a sheet, in row order
column(sheet, j) ==
    [ i \in 1..Len(sheet.rows) |->
        IF j = 1 THEN sheet.rows[i].label ELSE sheet.rows[i].cells[j - 1] ]

\* Series.dropna()
RECURSIVE dropna(_)
dropna(q) ==
    IF q = << >> THEN << >>
    ELSE (IF isna(Head(q)) THEN << >> ELSE << Head(q) >>) \o dropna(Tail(q))

\* detect_years_from_xlsx: the loop over the values of the year column; a
\* ValueError or TypeError goes on to the next value, any other exception
\* leaves the loop
RECURSIVE first_year(_)
first_year(vals) ==
    IF vals = << >> THEN Ok(None)
    ELSE LET y == int_float(Head(vals)) IN
         IF y.exc = "" THEN Ok(Some(y.val))
         ELSE IF y.exc \in { "ValueError", "TypeError" } THEN first_year(Tail(vals))
         ELSE Exc(y.exc)

\* df_d[year_col] iterated: the non-null cells of the column named year_col;
\* when several columns carry that name the selection is a DataFrame, whose
\* iteration yields its column names
year_values(sheet, names, j) ==
    IF Cardinality({ k \in 1..Len(names) : names[k] = names[j] }) > 1
    THEN SelectSeq([ k \in 1..Len(names) |-> Str(names[k]) ], LAMBDA c : c.s = names[j])
    ELSE dropna(column(sheet, j))

\* detect_years_from_xlsx: economic_year; the except Exception of the block
\* leaves it None
detect_economic_year(xl) ==
    LET d == find_sheet(xl, SHEET_DEMANDS) IN
    IF d = 0 THEN None
    ELSE IF ~xl.sheets[d].reads THEN None
    ELSE LET sheet == xl.sheets[d]
             names == [ k \in 1..Len(columns(sheet)) |-> strip(str(columns(sheet)[k])) ]
             cands == { k \in 1..Len(names) : lower(names[k]) \in year_synonyms }
         IN IF cands = {} THEN None
            ELSE LET j == CHOOSE k \in cands : \A l \in cands : k <= l
                     y == first_year(year_values(sheet, names, j))
                 IN IF y.exc = "" THEN y.val ELSE None

\* detect_years_from_xlsx: the loop over the Rho column labels
RECURSIVE rho_years(_, _)
rho_years(labels, sector_col) ==
    IF labels = << >> THEN Ok(<< >>)
    ELSE IF Head(labels) = sector_col THEN rho_years(Tail(labels), sector_col)
    ELSE LET y == int_float(Head(labels)) IN
         IF y.exc = "" THEN Then(Ok(<< y.val >>), rho_years(Tail(labels), sector_col))
         ELSE IF y.exc \in { "ValueError", "TypeError" } THEN rho_years(Tail(labels), sector_col)
         ELSE Exc(y.exc)

\* min(years), max(years)
min(q) == CHOOSE x \in Range(q) : \A y \in Range(q) : x <= y

max(q) == CHOOSE x \in Range(q) : \A y \in Range(q) : x >= y

\* detect_years_from_xlsx: (satellite_min, satellite_max); the except
\* Exception of the block leaves both None
detect_satellite_years(xl) ==
    LET r == find_sheet(xl, SHEET_RHO) IN
    IF r = 0 THEN << None, None >>
    ELSE IF ~xl.sheets[r].reads THEN << None, None >>
    ELSE LET years == rho_years(columns(xl.sheets[r]), xl.sheets[r].first) IN
         IF years.exc # "" \/ years.val = << >> THEN << None, None >>
         ELSE << Some(min(years.val)), Some(max(years.val)) >>

\* detect_years_from_xlsx(xlsx_path)
detect_years_from_xlsx(xl) ==
    IF ~xl.opens THEN Exc("Exception")
    ELSE Ok([ economic_year |-> detect_economic_year(xl),
              satellite_year_min |-> detect_satellite_years(xl)[1],
              satellite_year_max |-> detect_satellite_years(xl)[2] ])

\* get_config: its last two statements
get_config(xl) == detect_years_from_xlsx(xl)

\* load_rho_long(xlsx_path, model_version) on a workbook: read_excel of the
\* sheet named SHEET_RHO, then the melt
load_rho_long_xlsx(mv, xl) ==
    LET r == read_sheet(xl, SHEET_RHO) IN
    IF r = 0 \/ ~xl.sheets[r].reads THEN Exc("ValueError")
    ELSE load_rho_long(mv, [ cols |-> xl.sheets[r].cols, rows |-> xl.sheets[r].rows ])

\* ------------------------------------------------ properties of the run

LastCall == calls[Len(calls)]

\* C1: when a run for a version completes right after a completed run for
\* the same version on the same store and workbook, the rows tagged with
\* that version are, in every target table, the rows the first run left
C1_RerunSameRows == (pc = "done" /\ twice) => VersionRows(version) = snap

\* load_model_metadata has just returned, both of its store calls having succeeded
ActivateDone ==
    /\ pc = AfterMeta.pc /\ idx = AfterMeta.idx
    /\ Len(calls) > 0
    /\ LastCall = [ op |-> "update", table |-> "model_metadata", res |-> "ok" ]

\* C2: after load_model_metadata for version V completes without error,
\* exactly one row of model_metadata is active, and it is V's row
C2_ActivateExactlyOne ==
    ActivateDone =>
        /\ Cardinality(ActiveRows) = 1
        /\ \A m \in ActiveRows : m.model_version = version

C2_Witness ==
    /\ ActivateDone
    /\ { m.model_version : m \in meta } = StoredVersions
    /\ runs = 1

\* C3 as stated: once a run has completed, at most one row of
\* model_metadata is active in every later state, those inside later runs
\* and after an aborted run included
C3_AtMostOneActiveAlways == everDone => Cardinality(ActiveRows) <= 1

\* C3 amended: once a run has completed, at most one row is active in every
\* later state except from a later run's upsert of its own row until a
\* deactivating update of the other rows has succeeded
C3_AtMostOneActiveSettled ==
    (everDone /\ ~pendingDeact) => Cardinality(ActiveRows) <= 1

C3_Witness ==
    /\ everDone /\ ~pendingDeact
    /\ runs = 2 /\ pc = "insert"
    /\ Cardinality(ActiveRows) = 1
    /\ Cardinality(meta) > 1

\* C4: in a run every delete of the version's rows, over the whole table
\* list in its order, is issued before the first insert or upsert of a row
\* of the version, and no such delete follows an insert
C4_DeletesBeforeInserts ==
    \A j \in 1..Len(calls) :
        (calls[j].op \in { "insert", "upsert" } /\ calls[j].table # "ipcc_ar_gwp") =>
            /\ j > Len(DeleteTables)
            /\ \A i \in 1..Len(DeleteTables) :
                  calls[i].op = "delete" /\ calls[i].table = DeleteTables[i]
            /\ \A i \in j..Len(calls) : calls[i].op # "delete"

C4_Witness ==
    /\ pc = "done"
    /\ \E j \in 1..Len(calls) : calls[j].op = "upsert" /\ calls[j].res = "ok"
    /\ \E j \in 1..Len(calls) : calls[j].op = "insert" /\ calls[j].res = "ok"

\* C5: in the delete step a table the store reports missing is skipped with
\* a notice, without an error, and the delete goes on to the next table of
\* the list; any other failure aborts the run with no later table touched
C5_DeleteSkipsMissingTable ==
    \A i \in 1..Len(calls) :
        calls[i].op = "delete" =>
            /\ i <= Len(DeleteTables) /\ calls[i].table = DeleteTables[i]
            /\ calls[i].res = "PGRST205" =>
                  /\ << "delete", calls[i].table >> \in notices
                  /\ ~(pc = "aborted" /\ Len(calls) = i)
                  /\ i < Len(DeleteTables) =>
                        IF Len(calls) > i
                        THEN calls[i + 1].op = "delete" /\ calls[i + 1].table = DeleteTables[i + 1]
                        ELSE pc = "delete" /\ idx = i + 1
            /\ calls[i].res = "ERR" => pc = "aborted" /\ Len(calls) = i

C5_Witness ==
    /\ Len(calls) >= Len(DeleteTables)
    /\ calls[5] = [ op |-> "delete", table |-> "commodities_meta", res |-> "PGRST205" ]
    /\ calls[6] = [ op |-> "delete", table |-> "indicators", res |-> "ok" ]
    /\ calls[7] = [ op |-> "delete", table |-> "model_metadata", res |-> "ok" ]

\* the run went on after call i, in which step s skipped its table: its
\* next store call is an insert of a later step, or it stands at a later
\* step, or it is done if s was the last step
WentOnAfter(i, s) ==
    IF Len(calls) > i
    THEN calls[i + 1].op = "insert" /\ calls[i + 1].table # StepTable(s)
    ELSE IF StepIndex(s) = Len(Steps)
    THEN pc = "done"
    ELSE step > StepIndex(s)

C7_StoreErrorFatal ==
    \A i \in 1..Len(calls) :
        calls[i].res = "ERR" => pc = "aborted" /\ Len(calls) = i


\* -------------------------------------------- the melters on small sheets

\* texts of the sheets
T_A == << "A" >>
T_A_US == << "A", "/", "U", "S" >>
T_B_CA == << "B", "/", "C", "A" >>
T_kg == << "k", "g" >>
T_Units == << "U", "n", "i", "t", "s" >>
T_2019_1 == << "2", "0", "1", "9", ".", "1" >>
T_CO2 == << "C", "O", "2" >>
T_CH4 == << " ", "C", "H", "4" >>
T_GHG_sp == << " ", "G", "H", "G", " " >>
T_blank == << " " >>
T_neg == << "-", "1", ".", "5" >>
T_inf == << "i", "n", "f" >>

\* the cells under the columns: blank, 3.5, the text "7", the text "kg", the
\* text "inf"
Cells == { Null, Num(35), Str(<< "7" >>), Str(T_kg), Str(T_inf) }

\* column labels of a year-keyed sheet: 2019, "2019.1" (pandas' name for a
\* second 2019 column), "Units", 2020, "inf"
YearLabels == << Num(20190), Str(T_2019_1), Str(T_Units), Num(20200), Str(T_inf) >>

\* first cells of the rows of a year-keyed sheet
RowLabels == { Null, Str(T_A), Str(T_A_US), Str(T_B_CA) }

\* column labels of an impact sheet
SectorLabels == << Str(T_A_US), Str(T_B_CA), Str(T_A) >>

\* column labels of the characterization sheet
FlowLabels == << Str(T_CO2), Str(T_CH4) >>

\* first cells of the rows of the characterization sheet: blank, the padded
\* text " GHG ", the number 1.0, the text " ", the text "-1.5"
FirstCells == { Null, Str(T_GHG_sp), Num(10), Str(T_blank), Str(T_neg) }

\* the code of the indicator at position k
CodeOf(k) == << "I" >> \o DigitsOf(k)

\* the index_to_code dicts: each position either mapped to its code or absent
IndexDicts ==
    { [ k \in D |-> CodeOf(k) ] : D \in SUBSET (0..(MaxSheetRows - 1)) }

Shapes ==
    { sh \in (0..MaxSheetRows) \X (1..MaxSheetCols) : sh[1] * (sh[2] + 1) <= MaxCells }

\* the k-th smallest member of a set of numbers
Kth(S, k) == CHOOSE x \in S : Cardinality({ y \in S : y < x }) = k - 1

\* the selections of c labels of a list, in the order of the list
Picks(labels, c) ==
    { [ k \in 1..c |-> labels[Kth(S, k)] ] :
        S \in { X \in SUBSET (1..Len(labels)) : Cardinality(X) = c } }

\* the shapes of the sheets with columns labelled from a list
ShapesFor(labels) == { sh \in Shapes : sh[2] <= Len(labels) }

\* the rows of the sheets of one shape
RowsOf(firsts, sh) == [ 1..sh[1] -> [ label : firsts, cells : [ 1..sh[2] -> Cells ] ] ]

Sheet(cs, rs) == [ cols |-> cs, rows |-> rs ]

FunInput(kind, sheet, impact_type, index_to_code) ==
    [ kind |-> kind, sheet |-> sheet, impact_type |-> impact_type,
      index_to_code |-> index_to_code ]

\* fin is a year-keyed sheet
RhoInput ==
    \E sh \in ShapesFor(YearLabels) :
      \E cs \in Picks(YearLabels, sh[2]), rs \in RowsOf(RowLabels, sh) :
        fin = FunInput("rho", Sheet(cs, rs), "", << >>)

\* fin is an impact sheet (its first column is not read), the impact type
\* and an index_to_code dict
ImpactInput ==
    \E sh \in ShapesFor(SectorLabels) :
      \E cs \in Picks(SectorLabels, sh[2]), rs \in RowsOf({ Null }, sh) :
        \E it \in { "total", "domestic" }, d \in IndexDicts :
          fin = FunInput("impact", Sheet(cs, rs), it, d)

\* fin is a characterization sheet and an index_to_code dict
CInput ==
    \E sh \in ShapesFor(FlowLabels) :
      \E cs \in Picks(FlowLabels, sh[2]), rs \in RowsOf(FirstCells, sh) :
        \E d \in IndexDicts :
          fin = FunInput("c", Sheet(cs, rs), "", d)

\* characters of the composite keys
KeyChars == { "A", "/", " " }

\* the strings of at most n characters
RECURSIVE Strings(_)
Strings(n) ==
    IF n = 0 THEN { << >> }
    ELSE LET S == Strings(n - 1) IN
         S \cup { Append(q, c) : q \in { x \in S : Len(x) = n - 1 }, c \in KeyChars }

\* fin is the argument of get_sector_region: a string, the empty one and
\* None (both << >>) included
KeyInput == \E q \in Strings(MaxKeyLen) : fin = [ kind |-> "key", s |-> q ]

\* the tables read from indicators sheets without an "index" column: the
\* row labels are 0, 1, 2, ..., the code of a row is blank or its own
PlainTables ==
    { [ columns |-> { "code", "name" },
        rows |-> [ i \in 1..n |->
                     [ label |-> i - 1, index |-> None,
                       code |-> IF i \in B THEN Null ELSE Str(CodeOf(i - 1)) ] ] ] :
        n \in 0..MaxTableRows, B \in SUBSET (1..MaxTableRows) }

\* the same with an "index" column holding any positions
IndexedTables ==
    UNION { { [ columns |-> t.columns \cup { "index" },
                rows |-> [ i \in 1..Len(t.rows) |->
                             [ t.rows[i] EXCEPT !.index = Some(ix[i]) ] ] ] :
              ix \in [ 1..Len(t.rows) -> 0..MaxTableRows ] } : t \in PlainTables }

\* fin is the indicators table as load_indicators reads it
TableInput ==
    \E t \in PlainTables \cup IndexedTables : fin = [ kind |-> "indicators", table |-> t ]

\* no run; a sheet and the arguments of a melter
InitMelt ==
    /\ exists = AllTables /\ wbfail = {} /\ wbempty = {}
    /\ data = [ t \in DataTables |-> EmptyBag ]
    /\ meta = {} /\ ipcc = {}
    /\ pc = "idle" /\ idx = 0 /\ step = 0 /\ version = "v1"
    /\ calls = << >> /\ notices = {} /\ runs = 0
    /\ twice = FALSE /\ snap = NoSnap /\ everDone = FALSE /\ pendingDeact = FALSE
    /\ sent = << >> /\ resumed = FALSE
    /\ (RhoInput \/ ImpactInput \/ CInput)
    /\ fop = "none" /\ fout = Ok(<< >>)
    /\ procs = NoProcs

MeltRho ==
    /\ fop = "none" /\ fin.kind = "rho"
    /\ fop' = "load_rho_long"
    /\ fout' = load_rho_long(version, fin.sheet)
    /\ UNCHANGED << storeVars, runVars, pairVars, fin >>

MeltImpact ==
    /\ fop = "none" /\ fin.kind = "impact"
    /\ fop' = "load_impact_long"
    /\ fout' = load_impact_long(version, fin.impact_type, fin.index_to_code, fin.sheet)
    /\ UNCHANGED << storeVars, runVars, pairVars, fin >>

MeltC ==
    /\ fop = "none" /\ fin.kind = "c"
    /\ fop' = "load_c_matrix_long"
    /\ fout' = load_c_matrix_long(version, fin.index_to_code, fin.sheet)
    /\ UNCHANGED << storeVars, runVars, pairVars, fin >>

NextMelt == MeltRho \/ MeltImpact \/ MeltC

SpecMelt == InitMelt /\ [][NextMelt]_vars

\* an impact sheet of one column whose rows tell their positions: the row
\* that load_impact_long skips holds -0.1, the row at position p holds p tenths
MarkedSheet(n) ==
    Sheet(<< Str(T_A_US) >>,
          [ r \in 1..(n + 1) |-> [ label |-> Null, cells |-> << Num(r - 2) >> ] ])

\* fin is an indicators table as read and the M sheet of the same workbook
PipelineInput ==
    \E t \in PlainTables \cup IndexedTables, n \in 1..MaxTableRows :
      fin = [ kind |-> "pipeline", table |-> t, sheet |-> MarkedSheet(n) ]

\* no run; a composite key or an indicators table
InitParse ==
    /\ exists = AllTables /\ wbfail = {} /\ wbempty = {}
    /\ data = [ t \in DataTables |-> EmptyBag ]
    /\ meta = {} /\ ipcc = {}
    /\ pc = "idle" /\ idx = 0 /\ step = 0 /\ version = "v1"
    /\ calls = << >> /\ notices = {} /\ runs = 0
    /\ twice = FALSE /\ snap = NoSnap /\ everDone = FALSE /\ pendingDeact = FALSE
    /\ sent = << >> /\ resumed = FALSE
    /\ (KeyInput \/ TableInput \/ PipelineInput)
    /\ fop = "none" /\ fout = Ok(<< >>)
    /\ procs = NoProcs

\* get_sector_region on a key
ParseKey ==
    /\ fop = "none" /\ fin.kind = "key"
    /\ fop' = "get_sector_region"
    /\ fout' = Ok(get_sector_region(fin.s))
    /\ UNCHANGED << storeVars, runVars, pairVars, fin >>

\* build_index_to_code on the table as read
BuildIndex ==
    /\ fop = "none" /\ fin.kind = "indicators"
    /\ fop' = "build_index_to_code"
    /\ fout' = Ok(build_index_to_code(fin.table))
    /\ UNCHANGED << storeVars, runVars, pairVars, fin >>

\* main: the indicators step up to index_to_code
MainIndex ==
    /\ fop = "none" /\ fin.kind = "indicators"
    /\ fop' = "main_index_to_code"
    /\ fout' = Ok(main_index_to_code(fin.table))
    /\ UNCHANGED << storeVars, runVars, pairVars, fin >>

\* main: the indicators step up to index_to_code, then the M step's melt
MainImpact ==
    /\ fop = "none" /\ fin.kind = "pipeline"
    /\ fop' = "main_impact"
    /\ fout' = load_impact_long(version, "total", main_index_to_code(fin.table), fin.sheet)
    /\ UNCHANGED << storeVars, runVars, pairVars, fin >>

NextParse == ParseKey \/ BuildIndex \/ MainIndex \/ MainImpact

SpecParse == InitParse /\ [][NextParse]_vars


\* ------------------------------------------------ workbooks with years

T_Sector == << "S", "e", "c", "t", "o", "r" >>
T_Year == << "Y", "e", "a", "r" >>
T_Year_sp == << " ", "Y", "e", "a", "r" >>
T_Economic_Year == << "E", "c", "o", "n", "o", "m", "i", "c", " ", "Y", "e", "a", "r" >>
T_Name == << "N", "a", "m", "e" >>
T_2018 == << "2", "0", "1", "8" >>
T_demands_sp == << " ", "D", "e", "m", "a", "n", "d", "s", " " >>
T_rho_sp == << "r", "h", "o", " " >>

\* column labels of a demands sheet: "Economic Year", "Name", "Year" and
\* " Year" (named "Year" too once stripped)
DemandLabels == << Str(T_Economic_Year), Str(T_Name), Str(T_Year), Str(T_Year_sp) >>

\* cells of a demands sheet: blank, 2017.9, the texts "2018", "kg", "inf"
YearCells == { Null, Num(20179), Str(T_2018), Str(T_kg), Str(T_inf) }

\* first cells and cells of the rows of a Rho sheet of a workbook
BookRowLabels == { Null, Str(T_A) }

BookCells == { Null, Num(35) }

\* rows and columns of the sheets of a workbook
BookShapes ==
    { sh \in (0..MaxBookRows) \X (0..MaxSheetCols) : sh[1] * (sh[2] + 1) <= MaxBookCells }

BookSheet(name, reads, first, cs, rs) ==
    [ name |-> name, reads |-> reads, first |-> first, cols |-> cs, rows |-> rs ]

\* sheets given to a workbook beside the sheet under study: a Rho sheet of
\* 2019 and 2020 with one row, a demands sheet with one year, a sheet named
\* "rho " of 2020
PlainSheets ==
    { BookSheet(SHEET_RHO, TRUE, Str(T_Sector), << Num(20190), Num(20200) >>,
                << [ label |-> Str(T_A_US), cells |-> << Num(35), Null >> ] >>),
      BookSheet(SHEET_DEMANDS, TRUE, Str(T_Year), << >>,
                << [ label |-> Num(20179), cells |-> << >> ] >>),
      BookSheet(T_rho_sp, TRUE, Str(T_Sector), << Num(20200) >>, << >>) }

\* fin is a workbook, which opens or not, of the sheet s alone or of s and a
\* plain sheet of another name, in either order
BookOf(s) ==
    \E opens \in BOOLEAN :
      \/ fin = [ kind |-> "workbook", xl |-> [ opens |-> opens, sheets |-> << s >> ] ]
      \/ \E t \in PlainSheets :
           /\ t.name # s.name
           /\ \/ fin = [ kind |-> "workbook", xl |-> [ opens |-> opens, sheets |-> << s, t >> ] ]
              \/ fin = [ kind |-> "workbook", xl |-> [ opens |-> opens, sheets |-> << t, s >> ] ]

\* a workbook with a demands sheet: every column is one of DemandLabels
DemandBook ==
    \E sh \in { x \in BookShapes : x[2] <= 1 } :
      \E h \in Picks(DemandLabels, sh[2] + 1),
         rs \in [ 1..sh[1] -> [ label : YearCells, cells : [ 1..sh[2] -> YearCells ] ] ],
         name \in { SHEET_DEMANDS, T_demands_sp } :
        BookOf(BookSheet(name, TRUE, h[1], Tail(h), rs))

\* a workbook with a Rho sheet: a "Sector" column, then columns labelled as
\* in YearLabels
RhoBook ==
    \E sh \in { x \in BookShapes : x[2] <= Len(YearLabels) } :
      \E cs \in Picks(YearLabels, sh[2]),
         rs \in [ 1..sh[1] -> [ label : BookRowLabels, cells : [ 1..sh[2] -> BookCells ] ] ],
         name \in { SHEET_RHO, T_rho_sp } :
        BookOf(BookSheet(name, TRUE, Str(T_Sector), cs, rs))

\* a workbook with a sheet that pd.read_excel fails to read
BadBook ==
    \E name \in { SHEET_DEMANDS, SHEET_RHO } :
      BookOf(BookSheet(name, FALSE, Null, << >>, << >>))

BookInput == DemandBook \/ RhoBook \/ BadBook

\* no run; a workbook
InitYears ==
    /\ exists = AllTables /\ wbfail = {} /\ wbempty = {}
    /\ data = [ t \in DataTables |-> EmptyBag ]
    /\ meta = {} /\ ipcc = {}
    /\ pc = "idle" /\ idx = 0 /\ step = 0 /\ version = "v1"
    /\ calls = << >> /\ notices = {} /\ runs = 0
    /\ twice = FALSE /\ snap = NoSnap /\ everDone = FALSE /\ pendingDeact = FALSE
    /\ sent = << >> /\ resumed = FALSE
    /\ BookInput
    /\ fop = "none" /\ fout = Ok(<< >>)
    /\ procs = NoProcs

\* detect_years_from_xlsx on the workbook
DetectYears ==
    /\ fop = "none" /\ fin.kind = "workbook"
    /\ fop' = "detect_years_from_xlsx"
    /\ fout' = detect_years_from_xlsx(fin.xl)
    /\ UNCHANGED << storeVars, runVars, pairVars, fin >>

\* main: get_config, and later load_rho_long, on the same workbook
MainYearsRho ==
    /\ fop = "none" /\ fin.kind = "workbook"
    /\ fop' = "main"
    /\ \E years \in { get_config(fin.xl) },
          rho \in { load_rho_long_xlsx(version, fin.xl) } :
         fout' = IF years.exc # "" THEN years
                 ELSE Ok([ years |-> years.val, rho |-> rho ])
    /\ UNCHANGED << storeVars, runVars, pairVars, fin >>

NextYears == DetectYears \/ MainYearsRho

SpecYears == InitYears /\ [][NextYears]_vars


\* ------------------------------------------- properties of the melters

\* how often x occurs in a sequence
Count(q, x) == Cardinality({ k \in 1..Len(q) : q[k] = x })

\* a cell that is not blank and converts to a float
Numeric(val) == ~isna(val) /\ float(val).exc = ""

\* C8: no melter raises on a malformed cell: a cell that is not blank and
\* does not convert to a float is dropped and the melt goes on
C8_MelterNeverRaises == fop # "none" => fout.exc = ""

\* the cells (r, j) of a sheet from which a melt that skips the first data
\* row and resolves positions through d emits a record
SkipFirstCells(sheet, d) ==
    { x \in (2..Len(sheet.rows)) \X (1..Len(sheet.cols)) :
        (x[1] - 2) \in DOMAIN d /\ Numeric(sheet.rows[x[1]].cells[x[2]]) }

\* the impact record of cell x
ImpactRecord(x) ==
    LET key == get_sector_region(str(fin.sheet.cols[x[2]])) IN
    [ model_version |-> version, impact_type |-> fin.impact_type,
      indicator_code |-> fin.index_to_code[x[1] - 2],
      sector_code |-> key[1], region |-> key[2],
      value |-> float(fin.sheet.rows[x[1]].cells[x[2]]).val ]

\* the characterization record of cell x, were its first row skipped
CRecordSkipping(x) ==
    [ model_version |-> version, indicator_code |-> fin.index_to_code[x[1] - 2],
      flow |-> strip(str(fin.sheet.cols[x[2]])),
      value |-> float(fin.sheet.rows[x[1]].cells[x[2]]).val ]

\* the impact melt emits, once each, the records of the cells of the rows
\* after the first whose position, counted from 0 after it, has a code
ImpactSkipsFirstRow ==
    fop = "load_impact_long" =>
        /\ fout.exc = ""
        /\ LET E == SkipFirstCells(fin.sheet, fin.index_to_code) IN
           \A x \in Range(fout.val) \cup { ImpactRecord(e) : e \in E } :
               Count(fout.val, x) = Cardinality({ e \in E : ImpactRecord(e) = x })

RhoCells(sheet) ==
    { x \in (1..Len(sheet.rows)) \X (1..Len(sheet.cols)) :
        /\ ~isna(sheet.rows[x[1]].label)
        /\ int_float(sheet.cols[x[2]]).exc = ""
        /\ ~isna(sheet.rows[x[1]].cells[x[2]]) }

\* the (sector_code, region, year) of cell x
RhoKey(x) ==
    << get_sector_region(str(fin.sheet.rows[x[1]].label)),
       int_float(fin.sheet.cols[x[2]]).val >>

\* the record of cell x
RhoRecord(x) ==
    [ model_version |-> version, sector_code |-> RhoKey(x)[1][1],
      region |-> RhoKey(x)[1][2], year |-> RhoKey(x)[2],
      rho_value |-> float(fin.sheet.rows[x[1]].cells[x[2]]).val ]

\* the records of one (sector_code, region, year)
RhoGroup(key) ==
    { k \in 1..Len(fout.val) :
        << << fout.val[k].sector_code, fout.val[k].region >>, fout.val[k].year >> = key }

\* C10 as stated, for the sheets whose cells all convert: the records of the
\* Rho melt, grouped by (sector_code, region, year), are exactly one per
\* non-blank cell, with its value, and none belongs to a blank cell
C10_RhoGroupsAreCells ==
    (fop = "load_rho_long" /\ \A x \in RhoCells(fin.sheet) :
                                 Numeric(fin.sheet.rows[x[1]].cells[x[2]])) =>
        /\ fout.exc = ""
        /\ \A x \in RhoCells(fin.sheet) :
              /\ Cardinality(RhoGroup(RhoKey(x))) = 1
              /\ \A k \in RhoGroup(RhoKey(x)) : fout.val[k] = RhoRecord(x)
        /\ \A k \in 1..Len(fout.val) :
              \E x \in RhoCells(fin.sheet) : fout.val[k] = RhoRecord(x)

\* C10 amended: when the Rho melt returns, its records are exactly one per
\* non-blank cell in a row with a label and under a column whose label
\* converts to an integer, each with the cell's value, the parsed row label
\* and the column's year, and none belongs to a blank cell; a group by
\* (sector_code, region, year) holds one record for each cell with that key,
\* so exactly one when no other row label parses to the same (sector_code,
\* region) and no other column label converts to the same year
C10_RhoRecordsAreCells ==
    (fop = "load_rho_long" /\ fout.exc = "") =>
        LET E == RhoCells(fin.sheet) IN
        /\ \A x \in Range(fout.val) \cup { RhoRecord(e) : e \in E } :
              Count(fout.val, x) = Cardinality({ e \in E : RhoRecord(e) = x })
        /\ \A e \in E :
              Cardinality(RhoGroup(RhoKey(e))) = Cardinality({ x \in E : RhoKey(x) = RhoKey(e) })

C10_Witness ==
    /\ fop = "load_rho_long" /\ fout.exc = ""
    /\ Len(fin.sheet.rows) = 2 /\ Len(fin.sheet.cols) = 2
    /\ fin.sheet.rows[1].label = Str(T_A) /\ fin.sheet.rows[2].label = Str(T_A_US)
    /\ fin.sheet.rows[1].cells[1] = Null
    /\ Len(fout.val) = 3
    /\ \E e \in RhoCells(fin.sheet) : Cardinality(RhoGroup(RhoKey(e))) = 2

\* the column label converts to an integer: int(float(label)) returns
YearColumn(label) == int_float(label).exc = ""

\* C11: in the year-keyed melt a column whose label does not convert to an
\* integer contributes no record and raises no error, whatever its cells
\* hold: when the cells under the other columns are blank or numeric, the
\* melt returns, and its records are those of the cells under the columns
\* whose label converts
C11_NonYearColumnSkipped ==
    (/\ fop = "load_rho_long"
     /\ \A i \in 1..Len(fin.sheet.rows), j \in 1..Len(fin.sheet.cols) :
           YearColumn(fin.sheet.cols[j]) =>
               \/ isna(fin.sheet.rows[i].cells[j])
               \/ Numeric(fin.sheet.rows[i].cells[j])) =>
        /\ fout.exc = ""
        /\ Len(fout.val) = Cardinality(RhoCells(fin.sheet))
        /\ \A k \in 1..Len(fout.val) :
              \E x \in RhoCells(fin.sheet) : fout.val[k] = RhoRecord(x)

\* the value a melted record carries
ValueOf(rec) == IF "rho_value" \in DOMAIN rec THEN rec.rho_value ELSE rec.value

\* C12: every record a melter (Rho, M, M_d, C) emits carries a finite value,
\* and no blank cell is stored as zero (no sheet of the model holds a zero)
C12_ValuesFinite ==
    (fop \in { "load_rho_long", "load_impact_long", "load_c_matrix_long" } /\ fout.exc = "") =>
        \A k \in 1..Len(fout.val) :
            ValueOf(fout.val[k]).f = "fin" /\ ValueOf(fout.val[k]).t # 0

\* ------------------------------------- properties of get_sector_region

\* a string with no space at either end
Trimmed(q) == q = << >> \/ (q[1] # " " /\ q[Len(q)] # " ")

\* t is q without the spaces at its ends
IsTrimOf(t, q) ==
    /\ Trimmed(t)
    /\ \E a \in 0..Len(q) :
         /\ a + Len(t) <= Len(q)
         /\ SubSeq(q, a + 1, a + Len(t)) = t
         /\ \A k \in 1..Len(q) : (k <= a \/ k > a + Len(t)) => q[k] = " "

\* C13: get_sector_region returns on every string, the empty one and None
\* included; when the string holds a "/", the result is what stands before
\* and after its last "/", both trimmed; otherwise it is the trimmed string
\* and "US"; code and region are always trimmed strings
C13_ParseKey ==
    fop = "get_sector_region" =>
        /\ fout.exc = ""
        /\ LET s == fin.s
               code == fout.val[1]
               region == fout.val[2]
           IN /\ Len(fout.val) = 2
              /\ Chars(code) \cup Chars(region) \subseteq KeyChars \cup Chars(US)
              /\ Trimmed(code) /\ Trimmed(region)
              /\ IF \E i \in 1..Len(s) : s[i] = "/"
                 THEN \E i \in 1..Len(s) :
                        /\ s[i] = "/"
                        /\ \A j \in (i + 1)..Len(s) : s[j] # "/"
                        /\ IsTrimOf(code, SubSeq(s, 1, i - 1))
                        /\ IsTrimOf(region, SubSeq(s, i + 1, Len(s)))
                 ELSE IsTrimOf(code, s) /\ region = US

C13_Witness ==
    /\ fop = "get_sector_region"
    /\ fin.s = << " ", "A", "/", "/", "A" >>
    /\ fout.val = << << "A", "/" >>, << "A" >> >>

\* ----------------------------------- properties of build_index_to_code

\* the rows of the indicators table the dict is built from: all of them
\* when build_index_to_code is given the table as read, those with a code
\* in main
IndicatorRows ==
    IF fop = "main_index_to_code" THEN dropna_code(fin.table).rows ELSE fin.table.rows

\* C14: for a table with an "index" column every index value maps to the
\* code of its row, no two rows sharing a key; for a table without it the
\* keys are the positions 0, 1, 2, ... of the rows in iteration order, each
\* mapped to the code of its row
C14_IndexToCode ==
    fop \in { "build_index_to_code", "main_index_to_code" } =>
        LET rows == IndicatorRows
            d == fout.val
        IN IF "index" \in fin.table.columns
           THEN /\ DOMAIN d = { rows[i].index[1] : i \in 1..Len(rows) }
                /\ \A i \in 1..Len(rows) : d[rows[i].index[1]] = astype_str(rows[i].code)
           ELSE /\ DOMAIN d = 0..(Len(rows) - 1)
                /\ \A i \in 1..Len(rows) : d[i - 1] = astype_str(rows[i].code)

\* ------------------------------------ further properties of the run

\* the run is between its first store call and its end
Running == pc \notin { "idle", "done", "aborted" }

\* the row of the run's version is in model_metadata and is active
VersionActive == \E m \in ActiveRows : m.model_version = version

\* a step of a run keeps the row of its version active when it was
ActiveKept == (Running /\ VersionActive) => VersionActive'

\* C15: in a run that loads again the version that is active when it
\* begins, the upsert of the version's row precedes the deactivation of the
\* others, and no step of the run leaves the version's row absent from
\* model_metadata or inactive
C15_ReactivatedNeverInactive ==
    [][ /\ \A j \in 1..Len(calls') :
              (calls'[j].op = "update" /\ calls'[j].table = "model_metadata") =>
                  /\ j > 1
                  /\ calls'[j - 1] = [ op |-> "upsert", table |-> "model_metadata", res |-> "ok" ]
        /\ ActiveKept ]_vars

\* a step of load_model_metadata skips on "table not found" and raises on
\* any other store error, the store being left as it was in both cases
ActivateAnswered ==
    pc \in { "meta_upsert", "meta_update" } =>
        LET r == calls'[Len(calls')].res IN
        /\ r = "PGRST205" =>
              /\ << data', meta', ipcc' >> = << data, meta, ipcc >>
              /\ << "load", "model_metadata" >> \in notices'
              /\ pc' = "ipcc_delete" /\ idx' = 1
        /\ r = "ERR" =>
              /\ << data', meta', ipcc' >> = << data, meta, ipcc >>
              /\ pc' = "aborted"

\* C16: when the store answers a call of load_model_metadata with "table
\* not found", load_model_metadata changes nothing in the store, raises
\* nothing, leaves a notice, and the run goes on with load_ipcc_ar_gwp; any
\* other store error from its upsert or its update aborts the run
C16_ActivateSkipsMissingTable == [][ActivateAnswered]_vars

C16_Witness ==
    /\ pc = "done"
    /\ "model_metadata" \notin exists
    /\ calls[Len(DeleteTables) + 1] = [ op |-> "upsert", table |-> "model_metadata", res |-> "PGRST205" ]
    /\ calls[Len(DeleteTables) + 2].op = "delete_like"
    /\ LastCall = [ op |-> "insert", table |-> "c", res |-> "ok" ]

\* the rows of the batches of q the store accepted into table t, in order
RECURSIVE Accepted(_, _)
Accepted(q, t) ==
    IF q = << >> THEN << >>
    ELSE (IF Head(q).table = t /\ Head(q).res = "ok" THEN Head(q).chunk ELSE << >>)
         \o Accepted(Tail(q), t)

\* the run was aborted by a failed insert
InsertFailedFatally == pc = "aborted" /\ Len(calls) > 0 /\ LastCall.op = "insert"

\* C17: when an insert fails fatally nothing is rolled back: the rows of
\* the version in every table are exactly the rows of the batches the store
\* accepted before, those of earlier tables and the earlier batches of the
\* failing table alike; every earlier table that was loaded holds all its
\* records; and no row deleted at the start of the run is back
C17_NoRollback ==
    InsertFailedFatally =>
        /\ \A t \in DataTables :
              VersionRows(version).data[t] = BagOfSeq(Accepted(sent, t))
        /\ \A i \in 1..(step - 1) :
              (StepTable(Steps[i]) \in exists /\ Steps[i] \notin wbfail) =>
                  \A k \in 1..Len(Records(Steps[i], version)) :
                      BagIn(Records(Steps[i], version)[k], data[StepTable(Steps[i])])
        /\ \A t \in DataTables : ~BagIn(StaleRow(version), data[t])

C17_Witness ==
    /\ InsertFailedFatally
    /\ step > 1
    /\ Len(sent) > 1
    /\ sent[Len(sent)].res = "ERR"
    /\ sent[Len(sent) - 1].res = "ok"
    /\ sent[Len(sent) - 1].step = sent[Len(sent)].step
    /\ BagIn(sent[Len(sent) - 1].chunk[1], data[LastCall.table])

\* the steps that load table t from a sheet the workbook holds
LoadedSteps(t) ==
    { i \in 1..Len(Steps) : StepTable(Steps[i]) = t /\ t \in exists /\ Steps[i] \notin wbfail }

RECURSIVE BagOfSteps(_, _)
BagOfSteps(S, v) ==
    IF S = {} THEN EmptyBag
    ELSE LET i == CHOOSE x \in S : TRUE IN
         BagOfSeq(Records(Steps[i], v)) (+) BagOfSteps(S \ { i }, v)

\* the rows of version v a single complete run leaves on a store that held
\* no row of v, with the same workbook and the same tables
CleanRun(v) ==
    [ data |-> [ t \in DataTables |-> BagOfSteps(LoadedSteps(t), v) ],
      meta |-> IF "model_metadata" \in exists THEN { MetaRecord(v, DetectedYears) } ELSE {} ]

\* C18: a run that completes after an aborted run of the same version, on
\* the same workbook, leaves in every target table exactly the rows of the
\* version that a single complete run on a clean store leaves
C18_RerunAfterAbort == (pc = "done" /\ resumed) => VersionRows(version) = CleanRun(version)

\* a step leaves the rows of the other versions alone: in every data table
\* each row tagged with another version is there as often as before (none
\* deleted, none inserted, none modified), and a model_metadata row of
\* another version is kept as it was or with is_active set to false
OtherVersionsKept ==
    /\ \A t \in DataTables :
          data'[t] # data[t] =>
              \A r \in DOMAIN data[t] \cup DOMAIN data'[t] :
                  r.model_version # version' => CopiesIn(r, data'[t]) = CopiesIn(r, data[t])
    /\ \A m \in meta :
          m.model_version # version' =>
              (m \in meta' \/ [ m EXCEPT !.is_active = FALSE ] \in meta')
    /\ \A m \in meta' :
          m.model_version # version' =>
              (m \in meta \/ (~m.is_active /\ [ m EXCEPT !.is_active = TRUE ] \in meta))

\* C19: a run for version V never deletes, inserts or modifies a row tagged
\* with another version in a data table, so every row it inserts carries V;
\* in model_metadata its only change to the rows of other versions is
\* is_active set to false
C19_OtherVersionsUntouched == [][OtherVersionsKept]_vars

C19_Witness ==
    /\ pc = "done" /\ runs = 2
    /\ \E o \in Versions \ { version } :
         /\ BagIn(Row("rho", o, 1), data["rho"])
         /\ [ MetaRecord(o, DetectedYears) EXCEPT !.is_active = FALSE ] \in meta
    /\ BagIn(Row("rho", version, 1), data["rho"])
    /\ BagIn(StaleRow("v0"), data["rho"])
    /\ OldMeta("v0", FALSE) \in meta

\* the batches of the current run that step s gave to insert, in call order
BatchesOf(s) == SelectSeq(sent, LAMBDA e : e.step = s)

\* the rows of a sequence of batches, in order
RECURSIVE Concat(_)
Concat(q) == IF q = << >> THEN << >> ELSE Head(q).chunk \o Concat(Tail(q))

\* insert_in_batches has returned for step s in the current run
Inserted(s) ==
    /\ pc = "done" \/ (pc \in { "load", "insert" } /\ step > StepIndex(s))
    /\ s \notin wbfail
    /\ \A k \in 1..Len(sent) : sent[k].step = s => sent[k].res = "ok"

\* C20: the batches insert_in_batches sends for a table are, put together
\* in call order, the record list in source order (its beginning while the
\* loop runs, the whole list once it has returned); every batch holds at
\* least one and at most batch_size rows, every batch but the last exactly
\* batch_size; an empty record list produces no store call
C20_BatchesAreRecords ==
    \A s \in StepSet :
        IF \A k \in 1..Len(sent) : sent[k].step # s
        THEN Inserted(s) => Records(s, version) = << >>
        ELSE LET B == BatchesOf(s)
                 records == Records(s, version)
                 rows == Concat(B)
             IN /\ \A k \in 1..Len(B) : Len(B[k].chunk) \in 1..BatchSize
                /\ \A k \in 1..(Len(B) - 1) : Len(B[k].chunk) = BatchSize
                /\ Len(rows) <= Len(records)
                /\ rows = SubSeq(records, 1, Len(rows))
                /\ Inserted(s) => rows = records

C20_Witness ==
    /\ pc = "done"
    /\ wbempty = { "rho" } /\ BatchesOf("rho") = << >>
    /\ Len(BatchesOf("sector_crosswalk")) = 2
    /\ Len(BatchesOf("sector_crosswalk")[1].chunk) = BatchSize
    /\ Len(BatchesOf("sector_crosswalk")[2].chunk) = 1
    /\ Len(BatchesOf("indicators")) = 1
    /\ Len(BatchesOf("indicators")[1].chunk) = BatchSize
    /\ \A s \in StepSet : Inserted(s)


\* the codes C28 gives the impact row at position p: with an "index" column
\* those of the kept indicator rows whose index is p, without it that of the
\* p-th kept row
CodesAt(table, p) ==
    LET kept == dropna_code(table).rows IN
    IF "index" \in table.columns
    THEN { astype_str(kept[i].code) : i \in { k \in 1..Len(kept) : kept[k].index = Some(p) } }
    ELSE { astype_str(kept[i].code) : i \in { k \in 1..Len(kept) : k = p + 1 } }

\* C28: in a full run the position-to-code mapping given to the melters is
\* built from the indicators sheet after the projection to the indicator
\* columns and the removal of the rows with a null code: the impact row at
\* position p (from 0 after the skipped row) is tagged with the code of the
\* p-th indicator row kept, and an "index" column of the indicators sheet,
\* when there is one, determines the mapping; a row without a code yields
\* no record.
C28_RunMapsPositionsToKeptRows ==
    fop = "main_impact" =>
        /\ fout.exc = ""
        /\ \A p \in 0..(Len(fin.sheet.rows) - 2) :
             LET recs == { k \in 1..Len(fout.val) : fout.val[k].value = Finite(p) } IN
             IF CodesAt(fin.table, p) = {} THEN recs = {}
             ELSE /\ recs # {}
                  /\ \A k \in recs : fout.val[k].indicator_code \in CodesAt(fin.table, p)

\* a text that looks like a number: digits, with points and minus signs only
NumericLooking(q) ==
    /\ \E i \in 1..Len(q) : IsDigit(q[i])
    /\ \A i \in 1..Len(q) : IsDigit(q[i]) \/ q[i] \in { ".", "-" }

\* the indicator code C29 gives the row at position i (from 0, over all the
\* data rows), or None
CodeOfRow(i) ==
    LET first == fin.sheet.rows[i + 1].label IN
    IF ~isna(first) /\ strip(str(first)) # << >> /\ ~NumericLooking(strip(str(first)))
    THEN Some(strip(str(first)))
    ELSE Get(fin.index_to_code, i)

\* the cells of the characterization sheet that yield a record: those with a
\* number, in the rows with a code
CCells ==
    { x \in (1..Len(fin.sheet.rows)) \X (1..Len(fin.sheet.cols)) :
        CodeOfRow(x[1] - 1) # None /\ Numeric(fin.sheet.rows[x[1]].cells[x[2]]) }

CRecord(x) ==
    [ model_version |-> version, indicator_code |-> CodeOfRow(x[1] - 1)[1],
      flow |-> strip(str(fin.sheet.cols[x[2]])),
      value |-> float(fin.sheet.rows[x[1]].cells[x[2]]).val ]

\* C29: in the characterization melt the indicator code of a row is the
\* trimmed value of its first column when that value is non-null, non-empty
\* and not numeric-looking, otherwise the index_to_code entry of the row's
\* position, counted from 0 over all the data rows; a row is dropped only
\* when neither gives a code, and every record carries the trimmed label of
\* its flow column. The records are those of the numeric cells of the rows
\* with a code, once each.
C29_CMeltIndicatorCode ==
    fop = "load_c_matrix_long" =>
        /\ fout.exc = ""
        /\ \A x \in Range(fout.val) \cup { CRecord(e) : e \in CCells } :
               Count(fout.val, x) = Cardinality({ e \in CCells : CRecord(e) = x })

\* a sheet whose first row, with a numeric first cell, takes the code of
\* position 0, whose second row takes the trimmed text of its first cell,
\* and whose third row, blank and at a position without a code, is dropped
C29_Witness ==
    /\ fop = "load_c_matrix_long"
    /\ Len(fin.sheet.rows) = 3 /\ fin.sheet.cols = << Str(T_CH4) >>
    /\ fin.sheet.rows[1].label = Str(T_neg)
    /\ fin.sheet.rows[2].label = Str(T_GHG_sp)
    /\ fin.sheet.rows[3].label = Str(T_blank)
    /\ DOMAIN fin.index_to_code = { 0, 1 }
    /\ \A i \in 1..3 : fin.sheet.rows[i].cells = << Num(35) >>
    /\ fout.val = << [ model_version |-> version, indicator_code |-> CodeOf(0),
                       flow |-> << "C", "H", "4" >>, value |-> Finite(35) ],
                     [ model_version |-> version, indicator_code |-> << "G", "H", "G" >>,
                       flow |-> << "C", "H", "4" >>, value |-> Finite(35) ] >>

\* ------------------------------------------ properties of year detection

\* the sheet detect_years_from_xlsx takes for a name is there and cannot be read
Unreadable(xl, name) ==
    find_sheet(xl, name) # 0 /\ ~xl.sheets[find_sheet(xl, name)].reads

\* C21: year detection never aborts the load: a failure to open the workbook
\* or to read the demands or the Rho sheet is swallowed, detect_years_from_xlsx
\* returns normally, and the fields of the sheet that failed are absent.
C21_DetectionNeverRaises ==
    fop = "detect_years_from_xlsx" =>
        /\ fout.exc = ""
        /\ Unreadable(fin.xl, SHEET_DEMANDS) => fout.val.economic_year = None
        /\ Unreadable(fin.xl, SHEET_RHO) =>
               fout.val.satellite_year_min = None /\ fout.val.satellite_year_max = None

\* the integer conversions of the values of a list that convert, in order
RECURSIVE Converted(_)
Converted(q) ==
    IF q = << >> THEN << >>
    ELSE (IF isna(Head(q)) \/ int_float(Head(q)).exc # "" THEN << >>
          ELSE << int_float(Head(q)).val >>) \o Converted(Tail(q))

\* the columns of a sheet whose name is a year synonym, in column order
SynonymColumns(sheet) ==
    { j \in 1..Len(columns(sheet)) : lower(strip(str(columns(sheet)[j]))) \in year_synonyms }

\* the economic year of a workbook as C22 states it
EconomicYear(xl) ==
    LET d == find_sheet(xl, SHEET_DEMANDS) IN
    IF d = 0 \/ Unreadable(xl, SHEET_DEMANDS) \/ SynonymColumns(xl.sheets[d]) = {} THEN None
    ELSE LET j == CHOOSE k \in SynonymColumns(xl.sheets[d]) :
                      \A l \in SynonymColumns(xl.sheets[d]) : k <= l
             ys == Converted(column(xl.sheets[d], j))
         IN IF ys = << >> THEN None ELSE Some(ys[1])

\* C22: economic_year is the integer conversion of the first value, in row
\* order, of the first year-synonym column of the demands sheet that is
\* non-null and integer-convertible, the values before it that do not convert
\* being skipped; it is absent when the sheet or the column is missing or no
\* value converts.
C22_EconomicYearFirstConvertible ==
    (fop = "detect_years_from_xlsx" /\ fout.exc = "") =>
        fout.val.economic_year = EconomicYear(fin.xl)

\* the satellite years of a workbook as C23 states them: the conversions of
\* the Rho labels after the first that convert
SatelliteYears(xl) ==
    LET r == find_sheet(xl, SHEET_RHO) IN
    IF r = 0 \/ Unreadable(xl, SHEET_RHO) THEN << >> ELSE Converted(xl.sheets[r].cols)

\* C23: satellite_year_min and satellite_year_max are the least and the
\* greatest of the integer conversions of the Rho header labels after the
\* first that convert, both absent when none converts; a label that does not
\* convert never changes the result.
C23_SatelliteYearsMinMax ==
    (fop = "detect_years_from_xlsx" /\ fout.exc = "") =>
        LET ys == Range(SatelliteYears(fin.xl)) IN
        IF ys = {}
        THEN fout.val.satellite_year_min = None /\ fout.val.satellite_year_max = None
        ELSE /\ fout.val.satellite_year_min # None /\ fout.val.satellite_year_max # None
             /\ fout.val.satellite_year_min[1] \in ys /\ fout.val.satellite_year_max[1] \in ys
             /\ \A y \in ys : fout.val.satellite_year_min[1] <= y
                              /\ y <= fout.val.satellite_year_max[1]

\* C30: for every workbook the detected satellite years agree with the
\* melted Rho records: when the Rho melt emits a record, satellite_year_min
\* and satellite_year_max are present, min <= max, and the year of every
\* record lies between them.
C30_YearsCoverRhoRecords ==
    (fop = "main" /\ fout.exc = "" /\ fout.val.rho.exc = "" /\ fout.val.rho.val # << >>) =>
        LET lo == fout.val.years.satellite_year_min
            hi == fout.val.years.satellite_year_max
        IN /\ lo # None /\ hi # None
           /\ lo[1] <= hi[1]
           /\ \A k \in 1..Len(fout.val.rho.val) :
                lo[1] <= fout.val.rho.val[k].year /\ fout.val.rho.val[k].year <= hi[1]

\* ------------------------------------------- properties of the run (2)

\* C24: when a required data sheet (indicators, SectorCrosswalk, M, M_d) is
\* absent from the workbook, its step raises and the run aborts there: the
\* run never goes past that step and prints no "Skipped" notice for it; only
\* the absence of the optional sheet C is recovered, the run printing the
\* notice and completing (so the steps of the other sheets, commodities_meta
\* and Rho, abort as well). No row of an absent sheet is ever sent.
C24_MissingSheetAborts ==
    \A s \in wbfail :
        /\ \A k \in 1..Len(sent) : sent[k].step # s
        /\ s # "C" =>
             /\ step <= StepIndex(s)
             /\ step = StepIndex(s) => pc \in { "load", "aborted" }
             /\ << "load", s >> \notin notices
        /\ (s = "C" /\ step = StepIndex(s) /\ pc # "load") =>
             pc = "done" /\ << "load", s >> \in notices

\* a run aborted at the M step, whose sheet is absent, after the rows of the
\* sheets before it went in
C24_Witness ==
    /\ wbfail = { "M" }
    /\ pc = "aborted" /\ step = StepIndex("M")
    /\ LastCall.op = "insert" /\ LastCall.table = "rho" /\ LastCall.res = "ok"

\* the rows of version v that an earlier load left, none of them touched
EarlierLoad(v) ==
    [ t \in DataTables |-> IF t \in exists THEN SetToBag({ StaleRow(v) }) ELSE EmptyBag ]

\* C27: in every reachable store state, those in the middle of a run and the
\* last state of a run that aborts included, a version whose model_metadata
\* row is active has its complete freshly computed row set in the data
\* tables: the version of the run is never active while its data is deleted
\* or only partly inserted.
C27_ActiveImpliesDataComplete ==
    (runs > 0 /\ VersionActive) =>
        \/ VersionRows(version).data = CleanRun(version).data
        \/ VersionRows(version).data = EarlierLoad(version)

\* ---------------------------------------- properties of concurrent runs

\* both processes printed "Done.", every store call of both having succeeded
BothDone ==
    \A p \in Procs : procs.run[p].pc = "done" /\ ~procs.run[p].swallowed

SameVersion == procs.run[1].version = procs.run[2].version

\* the rows of table t tagged v
RowsOf_v(t, v) == [ r \in { x \in DOMAIN data[t] : x.model_version = v } |-> data[t][r] ]

\* C25: two load runs of one version V against one store whose store calls
\* interleave are unsafe: some interleaving of their deletes and inserts
\* leaves rows tagged V that differ from those of one run alone, every row
\* present twice for instance (C25_Witness), because nothing guards the
\* window between the delete and the inserts. What every interleaving of two
\* runs that succeed guarantees is only that each row of the workbook is
\* there once or twice and no other row of V; two runs that do not overlap
\* leave the rows of one run alone.
C25_SameVersionRunsUnsafe ==
    (SameVersion /\ BothDone) =>
        LET v == procs.run[1].version IN
        /\ \A t \in DataTables :
             /\ DOMAIN RowsOf_v(t, v) = DOMAIN CleanRun(v).data[t]
             /\ \A r \in DOMAIN RowsOf_v(t, v) : RowsOf_v(t, v)[r] \in { 1, 2 }
        /\ ~procs.overlapped => VersionRows(v).data = CleanRun(v).data

\* two overlapping runs of one version have completed and every row of the
\* workbook is in its table twice
C25_Witness ==
    /\ SameVersion /\ BothDone /\ procs.overlapped
    /\ \A t \in DataTables :
         /\ DOMAIN RowsOf_v(t, procs.run[1].version) # {}
         /\ \A r \in DOMAIN RowsOf_v(t, procs.run[1].version) :
              RowsOf_v(t, procs.run[1].version)[r] = 2

\* C26: two load runs for distinct versions whose store calls interleave
\* leave, once both have completed, exactly one model_metadata row with
\* is_active = true: no interleaving of the two upsert-then-deactivate
\* sequences ends with no active row or with two.
C26_DistinctVersionsOneActive ==
    (~SameVersion /\ BothDone) => Cardinality(ActiveRows) = 1
====
